---------------------------- MODULE Spec2Model ----------------------------
(***************************************************************************)
(* Carta cap-table transformer (src/src/carta_to_cap_table.py).            *)
(*                                                                         *)
(* run_transformation checks the two paths, parses the "Detailed Cap"      *)
(* sheet of the export (parse_carta_export) and populates the "Inputs"     *)
(* sheet of the template with formulas that reference a copy of the export *)
(* ("Carta Raw"), then saves the workbook (transform_to_template).         *)
(*                                                                         *)
(* A sheet is a sequence of rows, a row a sequence of cells.  Row i of the *)
(* sequence is spreadsheet row i (1-based) and pandas raw index i-1.       *)
(***************************************************************************)
EXTENDS Integers, Sequences, FiniteSets, TLC

(***************************************************************************)
(* Cells of the export.  A cell holds text, a number, or nothing.          *)
(***************************************************************************)
S(text) == [t |-> "str", s |-> text, n |-> 0]
N(num)  == [t |-> "num", s |-> "", n |-> num]
NaN     == [t |-> "nan", s |-> "", n |-> 0]

(***************************************************************************)
(* Text helpers: Python's str.lower, `in`, str.strip and ' '.join.         *)
(***************************************************************************)
UpperLetters == "ABCDEFGHIJKLMNOPQRSTUVWXYZ"
LowerLetters == "abcdefghijklmnopqrstuvwxyz"

UpperSet == {SubSeq(UpperLetters, i, i) : i \in 1..Len(UpperLetters)}

ToLower ==
    [c \in UpperSet |->
        LET i == CHOOSE j \in 1..Len(UpperLetters) : SubSeq(UpperLetters, j, j) = c
        IN  SubSeq(LowerLetters, i, i)]

LowerChar(c) == IF c \in UpperSet THEN ToLower[c] ELSE c

RECURSIVE Lower(_)
Lower(s) ==
    IF Len(s) = 0 THEN ""
    ELSE LowerChar(SubSeq(s, 1, 1)) \o Lower(SubSeq(s, 2, Len(s)))

\* Python's `sub in s`.
Contains(sub, s) ==
    \E i \in 1..(Len(s) - Len(sub) + 1) : SubSeq(s, i, i + Len(sub) - 1) = sub

\* Smallest position at which sub occurs in s, 0 when it does not.
Find(sub, s) ==
    IF Contains(sub, s)
    THEN CHOOSE i \in 1..(Len(s) - Len(sub) + 1) :
            /\ SubSeq(s, i, i + Len(sub) - 1) = sub
            /\ \A j \in 1..(i - 1) : SubSeq(s, j, j + Len(sub) - 1) # sub
    ELSE 0

RECURSIVE RStrip(_)
RStrip(s) ==
    IF Len(s) > 0 /\ SubSeq(s, Len(s), Len(s)) = " "
    THEN RStrip(SubSeq(s, 1, Len(s) - 1))
    ELSE s

RECURSIVE LStrip(_)
LStrip(s) ==
    IF Len(s) > 0 /\ SubSeq(s, 1, 1) = " "
    THEN LStrip(SubSeq(s, 2, Len(s)))
    ELSE s

Strip(s) == LStrip(RStrip(s))

RECURSIVE Join(_)
Join(strs) ==
    IF Len(strs) = 0 THEN ""
    ELSE IF Len(strs) = 1 THEN strs[1]
    ELSE strs[1] \o " " \o Join(Tail(strs))

\* Python's str(v) of a cell value read by pandas.
Str(cell) ==
    CASE cell.t = "str" -> cell.s
      [] cell.t = "num" -> ToString(cell.n)
      [] OTHER          -> "nan"

(***************************************************************************)
(* pd.to_numeric(..., errors='coerce').fillna(0) on one cell.              *)
(***************************************************************************)
Digits == "0123456789"

DigitValue(c) == (CHOOSE i \in 1..10 : SubSeq(Digits, i, i) = c) - 1

IsDigits(s) ==
    /\ Len(s) > 0
    /\ \A i \in 1..Len(s) : Contains(SubSeq(s, i, i), Digits)

RECURSIVE DigitsValue(_)
DigitsValue(s) ==
    IF Len(s) = 0 THEN 0
    ELSE 10 * DigitsValue(SubSeq(s, 1, Len(s) - 1)) + DigitValue(SubSeq(s, Len(s), Len(s)))

\* Mutant: what cannot be read as a number counts as -1.
to_numeric_sentinel(cell) ==
    CASE cell.t = "num" -> cell.n
      [] cell.t = "str" ->
            LET s == Strip(cell.s) IN
            IF IsDigits(s) THEN DigitsValue(s)
            ELSE IF Len(s) > 1 /\ SubSeq(s, 1, 1) = "-" /\ IsDigits(SubSeq(s, 2, Len(s)))
                 THEN 0 - DigitsValue(SubSeq(s, 2, Len(s)))
                 ELSE -1
      [] OTHER -> -1

to_numeric(cell) ==
    CASE cell.t = "num" -> cell.n
      [] cell.t = "str" ->
            LET s == Strip(cell.s) IN
            IF IsDigits(s) THEN DigitsValue(s)
            ELSE IF Len(s) > 1 /\ SubSeq(s, 1, 1) = "-" /\ IsDigits(SubSeq(s, 2, Len(s)))
                 THEN 0 - DigitsValue(SubSeq(s, 2, Len(s)))
                 ELSE 0
      [] OTHER -> 0

(***************************************************************************)
(* openpyxl.utils.get_column_letter: 1 -> A, 26 -> Z, 27 -> AA.            *)
(***************************************************************************)
RECURSIVE get_column_letter(_)
get_column_letter(col) ==
    IF col <= 0 THEN ""
    ELSE LET rem == ((col - 1) % 26) + 1
         IN  get_column_letter((col - rem) \div 26) \o SubSeq(UpperLetters, rem, rem)

(***************************************************************************)
(* Program constants.                                                      *)
(***************************************************************************)
HeaderScanRows   == 10   \* rows searched for the header
MaxClasses       == 4    \* share classes mapped into the template
TopN             == 9    \* investor rows of the template
FirstClassCol    == 6    \* template column F
HeaderRowNum     == 30   \* share-class header row of the template
FirstInvestorRow == 31
RollupRow        == 40   \* "Other Investors"
WarrantsRow      == 41
NameCol          == 4    \* template column D
CommonCol        == 16   \* template column P
OptionsCol       == 17   \* template column Q
PriceFirstRow    == 10
PriceCol         == 11   \* template column K

(***************************************************************************)
(* Bounds of the exports that are enumerated.                              *)
(***************************************************************************)
MaxVar    == 2    \* leading data rows drawn freely from RowKinds
MaxFiller == 10   \* further investor rows with distinct holdings

(***************************************************************************)
(* The exports.  A layout is a header row; roles say how the data rows of  *)
(* the enumerated exports fill each column.                                *)
(***************************************************************************)
Layouts == <<
    [labels |-> <<S("Stakeholder ID"), S("Name"), S("Class A Units (CA)"),
                  S("Series Seed Units"), S("Options Outstanding"), S("Outstanding Units")>>,
     roles  |-> <<"id", "name", "hold", "hold", "opt", "other">>],
    [labels |-> <<S("Name"), S("Series B Units"), S("Class A Units"), S("RSUs")>>,
     roles  |-> <<"name", "hold", "hold", "opt">>],
    [labels |-> <<S("Stakeholder ID"), S("Name"), S("Class A Units"), S("Class A Units"),
                  S("Class B Units"), S("Series Seed Units"), S("Series A Units")>>,
     roles  |-> <<"id", "name", "hold", "hold", "hold", "hold", "hold">>],
    [labels |-> <<S("ID"), S("NAME"), S("Class A Units")>>,
     roles  |-> <<"id", "name", "hold">>],
    [labels |-> <<S("ID"), S("Holder"), S("Class A Units")>>,
     roles  |-> <<"id", "name", "hold">>] >>

RowKinds == <<
    [name |-> S("Alice Smith"),        hold |-> N(50),        opt |-> N(5)],
    [name |-> S("Total Holdings LLC"), hold |-> N(50),        opt |-> NaN],
    [name |-> NaN,                     hold |-> NaN,          opt |-> NaN],
    [name |-> S("Bob Jones"),          hold |-> N(-30),       opt |-> N(-2)],
    [name |-> S("Carol Wu"),           hold |-> S("pending"), opt |-> S("12")] >>

\* One data row of kind k under a layout; numeric holdings differ by column.
DataRow(layout, k) ==
    [j \in 1..Len(layout.roles) |->
        CASE layout.roles[j] = "id"   -> S("SH")
          [] layout.roles[j] = "name" -> k.name
          [] layout.roles[j] = "hold" -> IF k.hold.t = "num" /\ k.hold.n > 0
                                         THEN N(k.hold.n + j) ELSE k.hold
          [] layout.roles[j] = "opt"  -> k.opt
          [] OTHER                    -> NaN]

FillerKind(i) == [name |-> S("Investor"), hold |-> N(100 * i), opt |-> N(i)]

BlankRow(layout) == [j \in 1..Len(layout.roles) |-> NaN]

TitleRow(layout, title) ==
    [j \in 1..Len(layout.roles) |-> IF j = 1 THEN S(title) ELSE NaN]

\* p rows above the header: a title, an "As of" line, then blank rows.
Preamble(layout, title, p) ==
    [i \in 1..p |->
        IF i = 1 THEN TitleRow(layout, title)
        ELSE IF i = 2 THEN TitleRow(layout, "As of 01/15/2024")
        ELSE BlankRow(layout)]

TotalsRow(layout) ==
    [j \in 1..Len(layout.roles) |->
        CASE layout.roles[j] = "name" -> S("Total Units Outstanding")
          [] layout.roles[j] = "hold" -> N(9000)
          [] OTHER                    -> NaN]

\* Prices: positive under the first share-class column, 0 under the second,
\* text under the others.
PriceRow(layout) ==
    LET holds == {j \in 1..Len(layout.roles) : layout.roles[j] = "hold"}
        rank(j) == Cardinality({h \in holds : h < j})
    IN  [j \in 1..Len(layout.roles) |->
            CASE layout.roles[j] = "name" -> S("Price per unit")
              [] layout.roles[j] = "hold" ->
                    IF rank(j) = 0 THEN N(3)
                    ELSE IF rank(j) = 1 THEN N(0)
                    ELSE IF rank(j) = 2 THEN N(7)
                    ELSE S("n/a")
              [] OTHER -> NaN]

Footer(layout, f) ==
    IF f = 1 THEN <<TotalsRow(layout)>> ELSE <<TotalsRow(layout), PriceRow(layout)>>

NormalTitle == "Acme Inc Detailed Capitalization Table"
DecoyTitle  == "Stakeholder Ledger"

VarRows == UNION {[1..n -> 1..Len(RowKinds)] : n \in 0..MaxVar}

BuildRaw(layout, title, p, var, m, f) ==
    Preamble(layout, title, p)
        \o <<layout.labels>>
        \o [i \in 1..Len(var) |-> DataRow(layout, RowKinds[var[i]])]
        \o [i \in 1..m |-> DataRow(layout, FillerKind(i))]
        \o Footer(layout, f)

\* Where the header row is put: first row, the usual place, the last row
\* that is searched, and the first row that is not.
HeaderPositions == {0, 2, HeaderScanRows - 1, HeaderScanRows}

Shapes ==
    {<<1, NormalTitle, p>> : p \in HeaderPositions}
        \cup {<<l, NormalTitle, 2>> : l \in 2..Len(Layouts)}
        \cup {<<1, DecoyTitle, 2>>}

\* Every arrangement of leading rows under the usual shape.
RowExports ==
    {BuildRaw(Layouts[1], NormalTitle, 2, var, m, 1) : var \in VarRows, m \in 0..MaxFiller}

\* Every shape, with and without a price row, and with a blank row ahead
\* of the investors or not.
ShapeVarRows == {<<>>, <<3, 1>>}

ShapeExports ==
    {BuildRaw(Layouts[sh[1]], sh[2], sh[3], var, m, f) :
        sh \in Shapes, var \in ShapeVarRows, m \in 0..MaxFiller, f \in 1..2}

Exports == RowExports \cup ShapeExports

\* Exports paired with a fault of the environment.
PlainExports ==
    {BuildRaw(Layouts[1], NormalTitle, 2, <<>>, m, 2) : m \in {1, MaxFiller}}

(***************************************************************************)
(* pd.read_excel: empty cells and the default NA strings are read as NaN.  *)
(***************************************************************************)
STR_NA_VALUES == {"", "#N/A", "N/A", "n/a", "NA", "<NA>", "#NA", "NULL", "null",
                  "NaN", "-NaN", "nan", "-nan", "None"}

ReadCell(cell) == IF cell.t = "str" /\ cell.s \in STR_NA_VALUES THEN NaN ELSE cell

\* raw = pd.read_excel(carta_path, sheet_name='Detailed Cap', header=None)
ReadRaw(rows) == [i \in 1..Len(rows) |-> [j \in 1..Len(rows[i]) |-> ReadCell(rows[i][j])]]

(***************************************************************************)
(* Header discovery.  Row indices are pandas' (0-based); NoHeader is None. *)
(***************************************************************************)
NoHeader == -1

row_values(row) == [j \in 1..Len(row) |-> Lower(Str(row[j]))]

IsHeaderRow(row) ==
    LET values == row_values(row)
    IN  \/ \E j \in 1..Len(row) : values[j] = "name"
        \/ Contains("stakeholder", Join(values))

Min(a, b) == IF a < b THEN a ELSE b

Max(a, b) == IF a > b THEN a ELSE b

\* The loop of lines 24-28 over range(min(limit, len(raw))) from row i on:
\* the first matching row ends it.
RECURSIVE ScanForHeader(_, _, _)
ScanForHeader(raw, i, limit) ==
    IF i >= Min(limit, Len(raw)) THEN NoHeader
    ELSE IF IsHeaderRow(raw[i + 1]) THEN i
    ELSE ScanForHeader(raw, i + 1, limit)

\* Mutant: one row more is searched.
FindHeaderRow_scan11(raw) == ScanForHeader(raw, 0, HeaderScanRows + 1)

FindHeaderRow(raw) == ScanForHeader(raw, 0, HeaderScanRows)

(***************************************************************************)
(* df = pd.read_excel(..., header=header_row): the labels of the header    *)
(* row (blank ones named, repeated ones numbered) and the rows below it.   *)
(***************************************************************************)
ColumnLabel(labels, j) ==
    LET text  == IF labels[j].t = "nan" THEN "Unnamed: " \o ToString(j - 1)
                 ELSE Str(labels[j])
        dups  == Cardinality({k \in 1..(j - 1) : labels[k] = labels[j]})
    IN  IF labels[j].t # "nan" /\ dups > 0 THEN text \o "." \o ToString(dups) ELSE text

DfColumns(rows, header_row) ==
    LET labels == rows[header_row + 1]
    IN  [j \in 1..Len(labels) |-> ColumnLabel(labels, j)]

\* Data row of pandas index d (0-based).
DfRow(raw, header_row, d) == raw[header_row + 2 + d]

DfLen(raw, header_row) == Len(raw) - header_row - 1

\* list(df.columns).index(label), 0-based.
ColumnIndex(columns, label) ==
    (CHOOSE j \in 1..Len(columns) :
        columns[j] = label /\ \A k \in 1..(j - 1) : columns[k] # label) - 1

IsShareClassCol(col) ==
    LET col_lower == Lower(col)
    IN  /\ Contains("class", col_lower) \/ Contains("series", col_lower)
        /\ Contains("units", col_lower)

IsOptionsCol(col) == Contains("option", Lower(col)) \/ Contains("rsu", Lower(col))

share_class_cols_of(columns) == SelectSeq(columns, IsShareClassCol)

options_cols_of(columns) == SelectSeq(columns, IsOptionsCol)

(***************************************************************************)
(* Row filtering.                                                          *)
(***************************************************************************)
summary_patterns ==
    {"total", "outstanding", "available", "fully diluted", "percentage", "price per"}

HasColumn(columns, label) == \E j \in 1..Len(columns) : columns[j] = label

\* str(row.get(label, '')).  A missing column gives the default ''.
RowGet(columns, row, label) ==
    IF HasColumn(columns, label) THEN Str(row[ColumnIndex(columns, label) + 1]) ELSE ""

\* Mutant: the keywords are matched without case-folding the name.
is_stakeholder_row_cased(columns, row) ==
    LET name == RowGet(columns, row, "Name")
    IN  /\ name # ""
        /\ ~ \E pattern \in summary_patterns : Contains(pattern, name)
        /\ name # "nan"

is_stakeholder_row(columns, row) ==
    LET name == Lower(RowGet(columns, row, "Name"))
    IN  /\ name # ""
        /\ ~ \E pattern \in summary_patterns : Contains(pattern, name)
        /\ name # "nan"

\* Sum of pd.to_numeric(..., errors='coerce').fillna(0) over the columns at
\* the given 0-based indices.
RECURSIVE SumNumeric(_, _)
SumNumeric(row, indices) ==
    IF Len(indices) = 0 THEN 0
    ELSE to_numeric(row[indices[1] + 1]) + SumNumeric(row, Tail(indices))

ColumnIndices(columns, cols) == [i \in 1..Len(cols) |-> ColumnIndex(columns, cols[i])]

\* One row of stakeholders_df.
StakeholderRecord(row, header_row, d, class_idx, opt_idx) ==
    [index         |-> d,
     cells         |-> row,
     carta_row     |-> d + header_row + 2,
     total_shares  |-> SumNumeric(row, class_idx),
     total_options |-> SumNumeric(row, opt_idx)]

RECURSIVE FilterRows(_, _, _, _, _, _)
FilterRows(columns, raw, header_row, d, class_idx, opt_idx) ==
    IF d >= DfLen(raw, header_row) THEN <<>>
    ELSE (IF is_stakeholder_row(columns, DfRow(raw, header_row, d))
          THEN <<StakeholderRecord(DfRow(raw, header_row, d), header_row, d,
                                   class_idx, opt_idx)>>
          ELSE <<>>)
            \o FilterRows(columns, raw, header_row, d + 1, class_idx, opt_idx)

(***************************************************************************)
(* Prices: the first raw row whose second cell mentions "price per unit".  *)
(***************************************************************************)
NoRow == 0

IsPriceRow(row) == Len(row) > 1 /\ Contains("price per unit", Lower(Str(row[2])))

PriceRowNum(raw) ==
    LET hits == {i \in 1..Len(raw) : IsPriceRow(raw[i])}
    IN  IF hits = {} THEN NoRow ELSE CHOOSE i \in hits : \A k \in hits : i <= k

PricePerUnit(raw, columns, class_cols) ==
    LET r      == PriceRowNum(raw)
        names  == {class_cols[i] : i \in 1..Len(class_cols)}
        priced == IF r = NoRow THEN {}
                  ELSE {c \in names :
                          /\ ColumnIndex(columns, c) < Len(raw[r])
                          /\ to_numeric(raw[r][ColumnIndex(columns, c) + 1]) > 0}
    IN  [c \in priced |-> to_numeric(raw[r][ColumnIndex(columns, c) + 1])]

RECURSIVE ReplaceAll(_, _)
ReplaceAll(s, old) ==
    LET i == Find(old, s)
    IN  IF i = 0 THEN s
        ELSE SubSeq(s, 1, i - 1) \o ReplaceAll(SubSeq(s, i + Len(old), Len(s)), old)

CompanyName(raw) == Strip(ReplaceAll(Str(raw[1][1]), "Detailed Capitalization Table"))

(***************************************************************************)
(* parse_carta_export on a sheet whose header row was found.               *)
(***************************************************************************)
\* The row filter looks the name up under the label 'Name'.  Without that
\* column every row yields '' and indexing df with the result raises KeyError.
FilterFails(rows, header_row) ==
    /\ ~HasColumn(DfColumns(rows, header_row), "Name")
    /\ DfLen(rows, header_row) > 0

\* col.lower() on a label that is a number raises AttributeError.
LabelsFail(rows, header_row) ==
    \E j \in 1..Len(rows[header_row + 1]) : rows[header_row + 1][j].t = "num"

ParsedExport(rows, header_row) ==
    LET raw        == ReadRaw(rows)
        columns    == DfColumns(rows, header_row)
        class_cols == share_class_cols_of(columns)
        opt_cols   == options_cols_of(columns)
    IN  [company_name            |-> CompanyName(raw),
         stakeholders            |->
            FilterRows(columns, raw, header_row, 0, ColumnIndices(columns, class_cols),
                       ColumnIndices(columns, opt_cols)),
         columns                 |-> columns,
         share_class_cols        |-> class_cols,
         share_class_col_indices |->
            [c \in {class_cols[i] : i \in 1..Len(class_cols)} |-> ColumnIndex(columns, c)],
         options_cols            |-> opt_cols,
         options_col_indices     |->
            [c \in {opt_cols[i] : i \in 1..Len(opt_cols)} |-> ColumnIndex(columns, c)],
         header_row              |-> header_row,
         price_per_unit          |-> PricePerUnit(raw, columns, class_cols),
         price_row_num           |-> PriceRowNum(raw)]

(***************************************************************************)
(* Template cells.  A cell of the Inputs sheet is <<row, column>>; its     *)
(* value is what the template held before ("prior"), None, the literal 0,  *)
(* a text, or a formula: '=' followed by references joined with '+'.       *)
(***************************************************************************)
raw_sheet_name == "Carta Raw"

TemplateCells ==
    ({6} \X {9})
        \cup ((PriceFirstRow..(PriceFirstRow + MaxClasses - 1)) \X {PriceCol})
        \cup ((HeaderRowNum..WarrantsRow) \X (NameCol..OptionsCol))

Prior         == [kind |-> "prior",   text |-> "", refs |-> <<>>]
None          == [kind |-> "none",    text |-> "", refs |-> <<>>]
Zero          == [kind |-> "zero",    text |-> "", refs |-> <<>>]
Text(t)       == [kind |-> "text",    text |-> t,  refs |-> <<>>]
Formula(refs) == [kind |-> "formula", text |-> "", refs |-> refs]

\* f"'{raw_sheet_name}'!{col}{row}"
Ref(col, row) == [sheet |-> raw_sheet_name, col |-> col, row |-> row]

Write(row, col, value) == [cell |-> <<row, col>>, value |-> value]

RECURSIVE Flatten(_)
Flatten(seqs) == IF Len(seqs) = 0 THEN <<>> ELSE seqs[1] \o Flatten(Tail(seqs))

(***************************************************************************)
(* Share-class mapping (step 2 of transform_to_template).                  *)
(***************************************************************************)
\* Mutant: a fifth class is mapped.
MappedClasses_five(carta_data) ==
    SubSeq(carta_data.share_class_cols, 1,
           Min(MaxClasses + 1, Len(carta_data.share_class_cols)))

\* share_classes[:4]
MappedClasses(carta_data) ==
    SubSeq(carta_data.share_class_cols, 1, Min(MaxClasses, Len(carta_data.share_class_cols)))

\* class_col_mapping[class_name] for the i-th mapped class (i from 1).
TemplateColumn(i) == FirstClassCol + (i - 1)

\* carta_col_mapping[class_name]
CartaColumn(carta_data, class_name) ==
    get_column_letter(carta_data.share_class_col_indices[class_name] + 1)

RECURSIVE RemoveParens(_)
RemoveParens(s) ==
    LET i == Find("(", s) IN
    IF i = 0 THEN s
    ELSE LET rest == SubSeq(s, i + 1, Len(s))
             j    == Find(")", rest)
         IN  IF j = 0 THEN s
             ELSE RStrip(SubSeq(s, 1, i - 1)) \o RemoveParens(SubSeq(rest, j + 1, Len(rest)))

clean_name(class_name) ==
    LET u      == Find("Units", class_name)
        no_u   == IF u = 0 THEN class_name ELSE SubSeq(class_name, 1, u - 1)
    IN  Strip(RemoveParens(Strip(no_u)))

HeaderWrites(carta_data) ==
    LET classes == MappedClasses(carta_data)
    IN  [i \in 1..Len(classes) |->
            Write(HeaderRowNum, TemplateColumn(i), Text(clean_name(classes[i])))]

\* options_carta_cols
OptionsCartaCols(carta_data) ==
    [i \in 1..Len(carta_data.options_cols) |->
        get_column_letter(carta_data.options_col_indices[carta_data.options_cols[i]] + 1)]

(***************************************************************************)
(* Ranking (step 3).  sort_values is called with pandas' default           *)
(* kind='quicksort', which is not a stable sort: every arrangement that is *)
(* descending in total_shares is an outcome.                               *)
(***************************************************************************)
RECURSIVE DescendingOrders(_, _)
DescendingOrders(stakeholders, left) ==
    IF left = {} THEN {<<>>}
    ELSE LET top == {i \in left :
                        \A k \in left :
                            stakeholders[i].total_shares >= stakeholders[k].total_shares}
         IN  UNION {{<<stakeholders[i]>> \o rest :
                        rest \in DescendingOrders(stakeholders, left \ {i})} : i \in top}

sort_values(stakeholders) == DescendingOrders(stakeholders, 1..Len(stakeholders))

\* Mutant: head(10).
top_investors_head10(sorted) == SubSeq(sorted, 1, Min(TopN + 1, Len(sorted)))

\* stakeholders.head(9)
top_investors(sorted) == SubSeq(sorted, 1, Min(TopN, Len(sorted)))

\* Mutant: iloc[10:], which drops the stakeholder of rank 9.
other_investors_iloc10(sorted) ==
    IF Len(sorted) > TopN THEN SubSeq(sorted, TopN + 2, Len(sorted)) ELSE <<>>

\* stakeholders.iloc[9:] if len(stakeholders) > 9 else pd.DataFrame()
other_investors(sorted) ==
    IF Len(sorted) > TopN THEN SubSeq(sorted, TopN + 1, Len(sorted)) ELSE <<>>

(***************************************************************************)
(* Steps 4 to 7: the cell writes, in the order the code makes them.        *)
(***************************************************************************)
\* ='Carta Raw'!B{carta_row}
name_formula(carta_row) == Formula(<<Ref("B", carta_row)>>)

ClassWrites(carta_data, excel_row, rows) ==
    LET classes == MappedClasses(carta_data)
    IN  [i \in 1..Len(classes) |->
            Write(excel_row, TemplateColumn(i),
                  Formula([r \in 1..Len(rows) |->
                              Ref(CartaColumn(carta_data, classes[i]), rows[r])]))]

\* The references of every options column for every row of rows, row-major.
OptionsRefs(carta_data, rows) ==
    LET cols == OptionsCartaCols(carta_data)
    IN  Flatten([r \in 1..Len(rows) |-> [c \in 1..Len(cols) |-> Ref(cols[c], rows[r])]])

OptionsValue(carta_data, rows) ==
    IF Len(carta_data.options_cols) > 0 THEN Formula(OptionsRefs(carta_data, rows)) ELSE Zero

InvestorWrites(carta_data, i, row) ==
    LET excel_row == FirstInvestorRow + i
    IN  <<Write(excel_row, NameCol, name_formula(row.carta_row))>>
            \o ClassWrites(carta_data, excel_row, <<row.carta_row>>)
            \o <<Write(excel_row, CommonCol, Zero),
                 Write(excel_row, OptionsCol, OptionsValue(carta_data, <<row.carta_row>>))>>

ZeroWrites(excel_row, first, last) ==
    [k \in 1..(last - first + 1) |-> Write(excel_row, first + k - 1, Zero)]

\* Mutant: the zeros stop one column short of Q.
ClearWrites_short(i) ==
    <<Write(FirstInvestorRow + i, NameCol, None)>>
        \o ZeroWrites(FirstInvestorRow + i, FirstClassCol, OptionsCol - 1)

ClearWrites(i) ==
    <<Write(FirstInvestorRow + i, NameCol, None)>>
        \o ZeroWrites(FirstInvestorRow + i, FirstClassCol, OptionsCol)

\* Mutant: the formulas are written without the test for an empty rollup.
RollupWrites_unguarded(carta_data, others) ==
    LET other_rows == [r \in 1..Len(others) |-> others[r].carta_row]
    IN  <<Write(RollupRow, NameCol, Text("Other Investors"))>>
            \o ClassWrites(carta_data, RollupRow, other_rows)
            \o <<Write(RollupRow, CommonCol, Zero),
                 Write(RollupRow, OptionsCol, OptionsValue(carta_data, other_rows))>>

RollupWrites(carta_data, others) ==
    LET other_rows == [r \in 1..Len(others) |-> others[r].carta_row]
    IN  IF Len(others) > 0
        THEN <<Write(RollupRow, NameCol, Text("Other Investors"))>>
                \o ClassWrites(carta_data, RollupRow, other_rows)
                \o <<Write(RollupRow, CommonCol, Zero),
                     Write(RollupRow, OptionsCol, OptionsValue(carta_data, other_rows))>>
        ELSE <<Write(RollupRow, NameCol, Text("Other Investors"))>>
                \o ZeroWrites(RollupRow, FirstClassCol, OptionsCol)

WarrantsWrites == ZeroWrites(WarrantsRow, FirstClassCol, CommonCol - 1)

\* Mutant: the priced classes are packed into successive rows.
PriceWrites_compact(carta_data) ==
    LET classes == MappedClasses(carta_data)
        priced  == DOMAIN carta_data.price_per_unit
        rank(i) == Cardinality({h \in 1..(i - 1) : classes[h] \in priced})
    IN  IF priced # {} /\ carta_data.price_row_num # NoRow
        THEN Flatten([i \in 1..Len(classes) |->
                IF classes[i] \in priced
                THEN <<Write(PriceFirstRow + rank(i), PriceCol,
                             Formula(<<Ref(CartaColumn(carta_data, classes[i]),
                                           carta_data.price_row_num)>>))>>
                ELSE <<>>])
        ELSE <<>>

PriceWrites(carta_data) ==
    LET classes == MappedClasses(carta_data)
        priced  == DOMAIN carta_data.price_per_unit
    IN  IF priced # {} /\ carta_data.price_row_num # NoRow
        THEN Flatten([i \in 1..Len(classes) |->
                IF classes[i] \in priced
                THEN <<Write(PriceFirstRow + (i - 1), PriceCol,
                             Formula(<<Ref(CartaColumn(carta_data, classes[i]),
                                           carta_data.price_row_num)>>))>>
                ELSE <<>>])
        ELSE <<>>

TemplateWrites(carta_data, sorted) ==
    LET top == top_investors(sorted)
    IN  <<Write(6, 9, Text(carta_data.company_name))>>
            \o HeaderWrites(carta_data)
            \o Flatten([i \in 1..Len(top) |-> InvestorWrites(carta_data, i - 1, top[i])])
            \o Flatten([k \in 1..Max(TopN - Len(top), 0) |-> ClearWrites(Len(top) + k - 1)])
            \o RollupWrites(carta_data, other_investors(sorted))
            \o WarrantsWrites
            \o PriceWrites(carta_data)

\* The sheet after the first n writes; a later write to a cell wins.
ApplyWrites(sheet, writes, n) ==
    [c \in DOMAIN sheet |->
        LET hits == {k \in 1..n : writes[k].cell = c}
        IN  IF hits = {} THEN sheet[c]
            ELSE writes[CHOOSE k \in hits : \A h \in hits : h <= k].value]

\* Assigning to a merged cell raises; 0 when every write goes through.
FirstFailingWrite(writes, merged) ==
    LET bad == {k \in 1..Len(writes) : writes[k].cell \in merged}
    IN  IF bad = {} THEN 0 ELSE CHOOSE k \in bad : \A h \in bad : k <= h

(***************************************************************************)
(* Step 9: the summary.                                                    *)
(***************************************************************************)
RECURSIVE ClassTotal(_, _, _)
ClassTotal(carta_data, sorted, class_name) ==
    IF Len(sorted) = 0 THEN 0
    ELSE to_numeric(sorted[1].cells[carta_data.share_class_col_indices[class_name] + 1])
            + ClassTotal(carta_data, Tail(sorted), class_name)

Summary(carta_data, sorted) ==
    LET classes == MappedClasses(carta_data)
    IN  [investors_processed   |-> Len(sorted),
         top_investors         |-> Len(top_investors(sorted)),
         other_investors_count |-> Len(other_investors(sorted)),
         share_classes_mapped  |-> classes,
         totals_by_class       |->
            [c \in {classes[i] : i \in 1..Len(classes)} |-> ClassTotal(carta_data, sorted, c)],
         prices_found          |-> DOMAIN carta_data.price_per_unit # {},
         carta_raw_sheet       |-> raw_sheet_name]

(***************************************************************************)
(* State.                                                                  *)
(***************************************************************************)
VARIABLES
    carta_file,      \* the export: [exists, has_sheet, rows]
    template_file,   \* the template: [exists, has_inputs, merged]
    output_dir_ok,   \* whether the output path can be written
    pc,              \* position of run_transformation
    error,           \* the exception that ended the run, "" when none
    carta_data,      \* result of parse_carta_export
    stakeholders,    \* the sorted stakeholders of transform_to_template
    inputs_sheet,    \* the Inputs sheet of the workbook in memory
    output_file,     \* the saved workbook: [written, inputs, carta_raw]
    result           \* the summary returned to the caller

vars == <<carta_file, template_file, output_dir_ok, pc, error, carta_data,
          stakeholders, inputs_sheet, output_file, result>>

NoData   == [header_row |-> NoHeader]
NoResult == [investors_processed |-> -1]
NoOutput == [written |-> FALSE, inputs |-> <<>>, carta_raw |-> <<>>]

\* A merged cell of the template among those the populator writes.
MergedChoices == {{}, {<<WarrantsRow, FirstClassCol>>}}

Environments ==
    {[carta_exists |-> ce, template_exists |-> te, has_sheet |-> hs, has_inputs |-> hi,
      merged |-> mg, output_dir_ok |-> ok] :
        ce \in BOOLEAN, te \in BOOLEAN, hs \in BOOLEAN, hi \in BOOLEAN,
        mg \in MergedChoices, ok \in BOOLEAN}

Faultless(env) ==
    /\ env.carta_exists /\ env.template_exists /\ env.has_sheet /\ env.has_inputs
    /\ env.merged = {} /\ env.output_dir_ok

Init ==
    \E env \in Environments :
      \E rows \in Exports :
        /\ Faultless(env) \/ rows \in PlainExports
        /\ carta_file = [exists |-> env.carta_exists, has_sheet |-> env.has_sheet,
                         rows |-> rows]
        /\ template_file = [exists |-> env.template_exists, has_inputs |-> env.has_inputs,
                            merged |-> env.merged]
        /\ output_dir_ok = env.output_dir_ok
        /\ pc = "start"
        /\ error = ""
        /\ carta_data = NoData
        /\ stakeholders = <<>>
        /\ inputs_sheet = [c \in TemplateCells |-> Prior]
        /\ output_file = NoOutput
        /\ result = NoResult

Fail(exception) ==
    /\ pc' = "error"
    /\ error' = exception

(***************************************************************************)
(* run_transformation, lines 324-330: both paths must exist.               *)
(***************************************************************************)
CheckPaths ==
    /\ pc = "start"
    /\ IF ~carta_file.exists \/ ~template_file.exists
       THEN Fail("FileNotFoundError")
       ELSE pc' = "parse" /\ error' = error
    /\ UNCHANGED <<carta_file, template_file, output_dir_ok, carta_data, stakeholders,
                   inputs_sheet, output_file, result>>

(***************************************************************************)
(* run_transformation, line 333: parse_carta_export.                       *)
(***************************************************************************)
ParseOutcome(header_row) ==
    IF ~carta_file.has_sheet THEN "ValueError: no sheet"
    ELSE IF header_row = NoHeader THEN "ValueError: no header"
    ELSE IF LabelsFail(carta_file.rows, header_row) THEN "AttributeError"
    ELSE IF FilterFails(carta_file.rows, header_row) THEN "KeyError"
    ELSE ""

ParseCartaExport ==
    /\ pc = "parse"
    /\ LET header_row == IF carta_file.has_sheet
                         THEN FindHeaderRow(ReadRaw(carta_file.rows)) ELSE NoHeader
           outcome    == ParseOutcome(header_row)
       IN  IF outcome # ""
           THEN /\ Fail(outcome)
                /\ carta_data' = carta_data
           ELSE /\ carta_data' = ParsedExport(carta_file.rows, header_row)
                /\ pc' = "transform"
                /\ error' = error
    /\ UNCHANGED <<carta_file, template_file, output_dir_ok, stakeholders,
                   inputs_sheet, output_file, result>>

(***************************************************************************)
(* run_transformation, lines 336-348: transform_to_template.  The workbook *)
(* is loaded, the export copied into it, the cells written one by one, the *)
(* workbook saved and the summary returned.                                *)
(***************************************************************************)
\* Mutant: the workbook is saved whether or not a write has raised.
Saves_always(failed, dir_ok) == dir_ok

\* wb.save(output_path) is step 8: it is reached when no write has raised,
\* and it writes the file when the path can be written.
Saves(failed, dir_ok) == failed = 0 /\ dir_ok

TransformToTemplate ==
    /\ pc = "transform"
    /\ IF ~template_file.has_inputs
       THEN /\ Fail("KeyError")
            /\ UNCHANGED <<stakeholders, inputs_sheet, output_file, result>>
       ELSE \E sorted \in sort_values(carta_data.stakeholders) :
              LET writes == TemplateWrites(carta_data, sorted)
                  failed == FirstFailingWrite(writes, template_file.merged)
              IN  /\ stakeholders' = sorted
                  /\ inputs_sheet' =
                        ApplyWrites(inputs_sheet, writes,
                                    IF failed # 0 THEN failed - 1 ELSE Len(writes))
                  /\ output_file' =
                        IF Saves(failed, output_dir_ok)
                        THEN [written   |-> TRUE,
                              inputs    |-> inputs_sheet',
                              carta_raw |-> carta_file.rows]
                        ELSE output_file
                  /\ IF failed # 0
                     THEN Fail("AttributeError") /\ result' = result
                     ELSE IF ~output_dir_ok
                     THEN Fail("PermissionError") /\ result' = result
                     ELSE /\ result' = Summary(carta_data, sorted)
                          /\ pc' = "done"
                          /\ error' = error
    /\ UNCHANGED <<carta_file, template_file, output_dir_ok, carta_data>>

Next == CheckPaths \/ ParseCartaExport \/ TransformToTemplate

Spec == Init /\ [][Next]_vars

(***************************************************************************)
(* Properties.                                                             *)
(***************************************************************************)
\* Number of stakeholders of the parsed export.
NumParsed == Len(carta_data.stakeholders)

\* C1: the ranking is stable: of two stakeholders with equal _total_shares
\* the one with the smaller _carta_row is ranked first.
C1_StableSort ==
    pc = "done" =>
        \A i, j \in 1..Len(stakeholders) :
            (i < j /\ stakeholders[i].total_shares = stakeholders[j].total_shares)
                => stakeholders[i].carta_row < stakeholders[j].carta_row

\* C2: with N parsed stakeholders the summary has top_investors = min(N, 9),
\* other_investors_count = max(N - 9, 0) and investors_processed = N, the sum
\* of the two.
C2_TopOtherCounts ==
    pc = "done" =>
        /\ result.top_investors = Min(NumParsed, 9)
        /\ result.other_investors_count = Max(NumParsed - 9, 0)
        /\ result.investors_processed = NumParsed
        /\ result.investors_processed
              = result.top_investors + result.other_investors_count

\* C2 witness: a finished run on an export with more than 9 stakeholders.
C2_Witness ==
    /\ pc = "done"
    /\ NumParsed > 9
    /\ result.top_investors = 9
    /\ result.other_investors_count = NumParsed - 9

\* C3: with N <= 9 stakeholders every cell F..Q of the rollup row (row 40) of
\* the saved workbook holds the literal 0, and none holds a formula without
\* terms.
C3_RollupLiteralZero ==
    (pc = "done" /\ NumParsed <= 9) =>
        \A col \in 6..17 :
            /\ output_file.inputs[<<40, col>>] = Zero
            /\ ~ (output_file.inputs[<<40, col>>].kind = "formula"
                    /\ output_file.inputs[<<40, col>>].refs = <<>>)

\* C3 witness: a finished run on an export without any stakeholder, whose
\* rollup row was written.
C3_Witness ==
    /\ pc = "done"
    /\ NumParsed = 0
    /\ output_file.inputs[<<40, 4>>] = Text("Other Investors")
    /\ output_file.inputs[<<40, 6>>] = Zero

\* The references of the mapped class i in the investor rows and the rollup
\* row of the saved workbook, top to bottom.
ClassRefsOf(i) ==
    Flatten([r \in 1..(RollupRow - FirstInvestorRow + 1) |->
        output_file.inputs[<<FirstInvestorRow + r - 1, TemplateColumn(i)>>].refs])

\* Column number of a column letter of the auxiliary sheet.
ColumnNumber(letters) ==
    CHOOSE n \in 1..Len(carta_data.columns) : get_column_letter(n) = letters

\* Numeric value of the auxiliary-sheet cell a reference points at.
AuxValue(ref) == to_numeric(output_file.carta_raw[ref.row][ColumnNumber(ref.col)])

RECURSIVE SumAux(_)
SumAux(refs) == IF Len(refs) = 0 THEN 0 ELSE AuxValue(refs[1]) + SumAux(Tail(refs))

RECURSIVE SumOfClass(_, _)
SumOfClass(rows, col_index) ==
    IF Len(rows) = 0 THEN 0
    ELSE to_numeric(rows[1].cells[col_index + 1]) + SumOfClass(Tail(rows), col_index)

\* C4: for every mapped share class the rows referenced by its formulas in
\* rows 31..39 and in the rollup row are the _carta_row values of all parsed
\* stakeholders, each once, and the referenced values add up to
\* totals_by_class of the class, the sum of the class over all parsed
\* stakeholders.
C4_Conservation ==
    pc = "done" =>
        \A i \in 1..Len(result.share_classes_mapped) :
            LET c    == result.share_classes_mapped[i]
                refs == ClassRefsOf(i)
            IN  /\ Len(refs) = NumParsed
                /\ {refs[k].row : k \in 1..Len(refs)}
                      = {carta_data.stakeholders[k].carta_row : k \in 1..NumParsed}
                /\ Cardinality({refs[k].row : k \in 1..Len(refs)}) = NumParsed
                /\ \A k \in 1..Len(refs) :
                      refs[k].sheet = "Carta Raw"
                          /\ refs[k].col = refs[1].col
                /\ SumAux(refs) = result.totals_by_class[c]
                /\ result.totals_by_class[c]
                      = SumOfClass(carta_data.stakeholders,
                                   carta_data.share_class_col_indices[c])

\* C4 witness: a finished run with more than 9 stakeholders and a mapped
\* class whose rollup cell is a formula.
C4_Witness ==
    /\ pc = "done"
    /\ NumParsed > 9
    /\ Len(result.share_classes_mapped) > 0
    /\ output_file.inputs[<<40, 6>>].kind = "formula"
    /\ result.totals_by_class[result.share_classes_mapped[1]] > 0

\* parse_carta_export has run: it returned, or it raised, or a later step did.
ParseRan == pc \in {"transform", "done"} \/ (pc = "error" /\ error # "FileNotFoundError")

\* The rows among the first 10 of the sheet (indices 0..9) that look like a
\* header: a cell that is 'name' when case-folded, or 'stakeholder' somewhere
\* in the case-folded text of the row.
EarlyHeaderRows ==
    LET raw == ReadRaw(carta_file.rows)
    IN  {i \in 0..9 :
            /\ i < Len(raw)
            /\ \/ \E j \in 1..Len(raw[i + 1]) : Lower(Str(raw[i + 1][j])) = "name"
               \/ Contains("stakeholder", Join([j \in 1..Len(raw[i + 1]) |->
                                                   Lower(Str(raw[i + 1][j]))]))}

\* C5: the header row is the smallest index in 0..9 that looks like a
\* header; without one the parse ends with an error and returns nothing, so
\* a first match at index 10 or later is not accepted.
C5_HeaderDiscovery ==
    (ParseRan /\ carta_file.has_sheet) =>
        /\ carta_data # NoData =>
              /\ carta_data.header_row \in EarlyHeaderRows
              /\ \A i \in EarlyHeaderRows : carta_data.header_row <= i
        /\ EarlyHeaderRows = {} =>
              /\ pc = "error"
              /\ error = "ValueError: no header"
              /\ carta_data = NoData
              /\ result = NoResult
        /\ error = "ValueError: no header" => EarlyHeaderRows = {}

\* C5 witness: a parse that found the header at row index 9.
C5_Witness ==
    /\ pc = "transform"
    /\ carta_data.header_row = 9
    /\ NumParsed > 0

\* Name field of the data row of index d, as the filter reads it: the text
\* of the cell under the label 'Name', '' without such a column.
NameField(header_row, d) ==
    LET labels == carta_file.rows[header_row + 1]
        cell   == ReadRaw(carta_file.rows)[header_row + 2 + d]
        named  == {j \in 1..Len(labels) : labels[j] = S("Name")}
    IN  IF named = {} THEN ""
        ELSE Str(cell[CHOOSE j \in named : \A k \in named : j <= k])

FooterKeywords ==
    {"total", "outstanding", "available", "fully diluted", "percentage", "price per"}

\* The rows the claim calls stakeholder rows.
NameIsStakeholder(name) ==
    /\ name # ""
    /\ Lower(name) # "nan"
    /\ \A w \in FooterKeywords : ~Contains(w, Lower(name))

\* Data-row indices of the parsed stakeholders; none when the parse failed.
ParsedIndices ==
    IF carta_data = NoData THEN {}
    ELSE {carta_data.stakeholders[k].index : k \in 1..NumParsed}

C7_TotalsNonNegative ==
    carta_data # NoData =>
        \A k \in 1..NumParsed :
            /\ carta_data.stakeholders[k].total_shares >= 0
            /\ carta_data.stakeholders[k].total_options >= 0

\* A cell that holds a negative number, as a number or as text.
IsNegativeCell(cell) ==
    \/ cell.t = "num" /\ cell.n < 0
    \/ cell.t = "str" /\ Len(cell.s) > 1 /\ SubSeq(cell.s, 1, 1) = "-"
          /\ IsDigits(SubSeq(cell.s, 2, Len(cell.s)))

\* A cell pd.to_numeric reads a number from.
IsNumericCell(cell) ==
    \/ cell.t = "num"
    \/ cell.t = "str" /\ IsDigits(Strip(cell.s))
    \/ IsNegativeCell(cell)

\* The cells of a stakeholder under the given columns.
CellsUnder(s, cols, indices) == {s.cells[indices[cols[i]] + 1] : i \in 1..Len(cols)}

\* C7 amended: total_shares (total_options) of a parsed stakeholder is >= 0
\* when none of its share-class (option) cells holds a negative number; blank
\* and non-numeric cells contribute 0.
C7_TotalsNonNegativeUnlessNegativeCell ==
    carta_data # NoData =>
        \A k \in 1..NumParsed :
            LET s      == carta_data.stakeholders[k]
                shares == CellsUnder(s, carta_data.share_class_cols,
                                     carta_data.share_class_col_indices)
                opts   == CellsUnder(s, carta_data.options_cols,
                                     carta_data.options_col_indices)
            IN  /\ (\A c \in shares : ~IsNegativeCell(c)) => s.total_shares >= 0
                /\ (\A c \in opts : ~IsNegativeCell(c)) => s.total_options >= 0
                /\ (\A c \in shares : ~IsNumericCell(c)) => s.total_shares = 0
                /\ (\A c \in opts : ~IsNumericCell(c)) => s.total_options = 0

\* C7 witness: a parsed stakeholder whose share-class cells hold text and
\* whose total_shares is 0.
C7_Witness ==
    /\ pc = "transform"
    /\ \E k \in 1..NumParsed :
          LET s == carta_data.stakeholders[k]
          IN  /\ carta_data.share_class_cols # <<>>
              /\ \A c \in CellsUnder(s, carta_data.share_class_cols,
                                     carta_data.share_class_col_indices) : c.t = "str"
              /\ s.total_shares = 0

\* C8: a run that ends with an error has written no output file; a missing
\* path ends the run before anything is parsed; and the file that is written
\* holds the sheet after every cell write.
C8_FailureAtomicity ==
    /\ pc = "error" => ~output_file.written
    /\ (~carta_file.exists \/ ~template_file.exists) =>
          /\ pc \in {"start", "error"}
          /\ pc = "error" => error = "FileNotFoundError"
          /\ carta_data = NoData
    /\ output_file.written =>
          /\ pc = "done"
          /\ output_file.inputs = inputs_sheet
          /\ output_file.inputs
                = ApplyWrites([c \in TemplateCells |-> Prior],
                              TemplateWrites(carta_data, stakeholders),
                              Len(TemplateWrites(carta_data, stakeholders)))
          /\ \A col \in 6..15 : output_file.inputs[<<41, col>>] = Zero

\* C8 witness: a run that failed while populating, after cells were written.
C8_Witness ==
    /\ pc = "error"
    /\ error = "AttributeError"
    /\ inputs_sheet[<<40, 4>>] = Text("Other Investors")
    /\ ~output_file.written

\* Position (from 1) of the column labelled 'Name' in the header row.
NamePosition ==
    LET labels == carta_file.rows[carta_data.header_row + 1]
    IN  CHOOSE j \in 1..Len(labels) :
            labels[j] = S("Name") /\ \A k \in 1..(j - 1) : labels[k] # S("Name")

RECURSIVE Ascending(_)
Ascending(set) ==
    IF set = {} THEN <<>>
    ELSE LET least == CHOOSE x \in set : \A y \in set : x <= y
         IN  <<least>> \o Ascending(set \ {least})

\* Positions (from 1) of the share-class columns of the header row, left to
\* right: the labels with 'class' or 'series', and 'units', case-folded.
ClassPositions ==
    LET labels == carta_file.rows[carta_data.header_row + 1]
    IN  Ascending({j \in 1..Len(labels) :
            LET text == Lower(Str(labels[j]))
            IN  /\ Contains("class", text) \/ Contains("series", text)
                /\ Contains("units", text)})

\* C9: for the stakeholder of rank k < min(N, 9), row 31+k holds a name
\* formula that references the export's name column at the stakeholder's own
\* sheet row (data index + header_row + 2), and for each mapped class a
\* formula that references that class's source column at the same row.
C9_TopRowReferences ==
    pc = "done" =>
        \A k \in 0..(Min(NumParsed, 9) - 1) :
            LET own_row == stakeholders[k + 1].index + carta_data.header_row + 2
            IN  /\ output_file.inputs[<<31 + k, 4>>]
                      = Formula(<<Ref(get_column_letter(NamePosition), own_row)>>)
                /\ \A i \in 1..Len(result.share_classes_mapped) :
                      output_file.inputs[<<31 + k, 5 + i>>]
                          = Formula(<<Ref(get_column_letter(ClassPositions[i]), own_row)>>)

\* C10: share_class_cols lists the share-class columns left to right; the
\* first min(4, n) are mapped, the i-th to template column 6+i (from 0) and
\* to the letter of its own source column; no other class reaches a header
\* cell, an investor row or the rollup row.
C10_ClassMapping ==
    pc = "done" =>
        LET cols    == carta_data.share_class_cols
            n       == Len(ClassPositions)
            mapped  == Min(4, n)
            letter(i) == get_column_letter(ClassPositions[i])
        IN  /\ Len(cols) = n
            /\ \A i \in 1..n :
                  carta_data.share_class_col_indices[cols[i]] + 1 = ClassPositions[i]
            /\ result.share_classes_mapped = SubSeq(cols, 1, mapped)
            /\ \A i, j \in 1..mapped : i < j => letter(i) # letter(j)
            /\ \A i \in 1..mapped :
                  /\ output_file.inputs[<<30, 5 + i>>] = Text(clean_name(cols[i]))
                  /\ \A r \in 31..40 :
                        LET v == output_file.inputs[<<r, 5 + i>>]
                        IN  /\ v.kind \in {"formula", "zero"}
                            /\ \A x \in 1..Len(v.refs) : v.refs[x].col = letter(i)
                  /\ \A r \in 31..(30 + Min(NumParsed, 9)) :
                        output_file.inputs[<<r, 5 + i>>].kind = "formula"
            /\ \A col \in (6 + mapped)..15 :
                  /\ output_file.inputs[<<30, col>>] = Prior
                  /\ \A r \in 31..40 :
                        output_file.inputs[<<r, col>>].kind \in {"prior", "zero"}

\* C10 witness: a finished run on an export with more than 4 share classes
\* and at least one stakeholder.
C10_Witness ==
    /\ pc = "done"
    /\ Len(carta_data.share_class_cols) > 4
    /\ Len(result.share_classes_mapped) = 4
    /\ NumParsed > 0
    /\ output_file.inputs[<<31, 9>>].kind = "formula"

\* Sheet row (from 1) of the export's price row: the first row whose second
\* cell reads 'price per unit' in any letter case; 0 when there is none.
PriceSheetRow ==
    LET rows == carta_file.rows
        hits == {r \in 1..Len(rows) :
                    /\ Len(rows[r]) > 1
                    /\ rows[r][2].t = "str"
                    /\ Contains("price per unit", Lower(rows[r][2].s))}
    IN  IF hits = {} THEN 0 ELSE CHOOSE r \in hits : \A h \in hits : r <= h

\* Whether the price row holds a positive number under the i-th share class.
HasPrice(i) ==
    /\ PriceSheetRow # 0
    /\ to_numeric(ReadCell(carta_file.rows[PriceSheetRow][ClassPositions[i]])) > 0

PricesDiscovered ==
    \E i \in 1..Len(ClassPositions) : HasPrice(i)

\* The price formula of the i-th mapped class.
PriceFormula(i) ==
    Formula(<<Ref(get_column_letter(ClassPositions[i]), PriceSheetRow)>>)

C12_StaleRowsCleared ==
    (pc = "done" /\ NumParsed < 9) =>
        \A k \in NumParsed..8 :
            /\ output_file.inputs[<<31 + k, 4>>] = None
            /\ \A col \in 6..17 : output_file.inputs[<<31 + k, col>>] = Zero

\* C12 witness: a finished run with some stakeholders but fewer than 9; the
\* template held earlier content in every cell, the used rows hold formulas
\* and the last unused row is cleared through column Q.
C12_Witness ==
    /\ pc = "done"
    /\ NumParsed > 0 /\ NumParsed < 9
    /\ template_file.merged = {}
    /\ output_file.inputs[<<31, 4>>].kind = "formula"
    /\ output_file.inputs[<<31 + NumParsed, 4>>] = None
    /\ output_file.inputs[<<39, 17>>] = Zero
    /\ output_file.inputs[<<39, 5>>] = Prior

=============================================================================
